---- MODULE Spec2Model ----
(***************************************************************************)
(* Rent collection ledger (src/app.py): the SQLite store (tenants,         *)
(* charges, payments), the monthly charge backfill, the tenant page        *)
(* (add / update / delete), the collect-rent page and the ledger page,     *)
(* run by concurrent Streamlit sessions that share one database file.      *)
(*                                                                         *)
(* Every sqlite3 statement is one step.  A SELECT outside a transaction    *)
(* reads the committed store.  The first INSERT / UPDATE / DELETE of a     *)
(* connection opens a transaction and takes the database write lock; the   *)
(* rows it writes stay private to the connection until commit.  Amounts    *)
(* are whole currency units.                                               *)
(***************************************************************************)
EXTENDS Integers, Sequences, FiniteSets, TLC

VARIABLES
    tenants,    \* table tenants: id -> [rent, joining_date, opening_balance]
    nextId,     \* next AUTOINCREMENT id of table tenants (ids are never reused)
    charges,    \* table charges, rows in id order: [tenant_id, charge_date, amount]
    payments,   \* table payments, rows in id order: [tenant_id, payment_date, amount]
    lock,       \* the session holding the database write lock, or "none"
    now,        \* the calendar month of the system date, <<year, month>>
    sess,       \* per session: position in the running page script and its locals
    settled     \* history: tenant -> month of an undisturbed backfill run that has
                \* completed with nothing committed since (None otherwise)

vars == <<tenants, nextId, charges, payments, lock, now, sess, settled>>

----------------------------------------------------------------------------
(* Bounds of the model *)

MaxTenants == 2      \* tenants ever created (ids handed out)
MaxLive == 1         \* tenants in the store at one time
MaxPayments == 2     \* rows of table payments
MaxElapsed == 1      \* months the system date advances
MaxGap == 2          \* months the system date advances where runs may skip months

\* Rows of table charges (committed plus pending): room for every tenant in the
\* store to be charged from the month before the first system date, the
\* earliest join month, through the last system date.
MaxCharges == MaxLive * (MaxGap + 2)

\* main() gives the admin every page and the employee Collect Rent and Reports.
Sessions == {"admin", "employee"}
StartClock == <<2023, 12>>
Rents == {0, 10}
OpeningBalances == {0, 5}
JoinDates == {<<2023, 11, 15>>, <<2023, 12, 1>>}
PayAmounts == {10}
PayDays == {1, 15}

None == <<>>

----------------------------------------------------------------------------
(* Dates.  A date is <<y, m, d>>, a month is <<y, m>>; ISO strings compare  *)
(* as these tuples do, component by component.                             *)

MonthOf(d) == <<d[1], d[2]>>

FirstOf(ym) == <<ym[1], ym[2], 1>>

DateLt(a, b) ==
    \/ a[1] < b[1]
    \/ a[1] = b[1] /\ a[2] < b[2]
    \/ a[1] = b[1] /\ a[2] = b[2] /\ a[3] < b[3]

DateLeq(a, b) == a = b \/ DateLt(a, b)

YmLeq(a, b) == DateLeq(FirstOf(a), FirstOf(b))

NextFirst(last_first) ==
    LET nm_y == last_first[1] + (IF last_first[2] = 12 THEN 1 ELSE 0)
        nm_m == IF last_first[2] = 12 THEN 1 ELSE last_first[2] + 1
    IN  <<nm_y, nm_m, 1>>

AdvanceCursorSameYear(cursor_date) ==
    LET nm == IF cursor_date[2] = 12 THEN 1 ELSE cursor_date[2] + 1
    IN  <<cursor_date[1], nm, 1>>

AdvanceCursor(cursor_date) ==
    LET ny == cursor_date[1] + (IF cursor_date[2] = 12 THEN 1 ELSE 0)
        nm == IF cursor_date[2] = 12 THEN 1 ELSE cursor_date[2] + 1
    IN  <<ny, nm, 1>>

MonthsElapsed(ym) == (ym[1] - StartClock[1]) * 12 + (ym[2] - StartClock[2])

----------------------------------------------------------------------------
(* Queries *)

RECURSIVE SumAmount(_)
SumAmount(rows) ==
    IF rows = <<>> THEN 0 ELSE Head(rows).amount + SumAmount(Tail(rows))

RowsOf(table, tenant_id) == SelectSeq(table, LAMBDA r : r.tid = tenant_id)

RowsOfMonth(table, tenant_id, year_month) ==
    SelectSeq(table, LAMBDA r : r.tid = tenant_id /\ MonthOf(r.date) = year_month)

LastYm(chs, tenant_id) ==
    LET yms == {MonthOf(chs[i].date) : i \in {j \in 1..Len(chs) : chs[j].tid = tenant_id}}
    IN  IF yms = {} THEN None
        ELSE CHOOSE ym \in yms : \A other \in yms : YmLeq(other, ym)

StartDateFromJoin(join_date, last_ym) == FirstOf(MonthOf(join_date))

StartDate(join_date, last_ym) ==
    LET start_date == FirstOf(MonthOf(join_date))
    IN  IF last_ym /= None /\ DateLt(start_date, NextFirst(FirstOf(last_ym)))
        THEN NextFirst(FirstOf(last_ym))
        ELSE start_date

RentForMonth(tenant_id, rent_now) ==
    IF tenant_id \in DOMAIN tenants /\ tenants[tenant_id].rent /= 0
    THEN tenants[tenant_id].rent
    ELSE rent_now

TenantNetBalanceAddsCharges(ob, chs, pays) == pays - ob + chs

TenantNetBalance(ob, chs, pays) == pays - (ob + chs)

MonthHasDelayOrEqual(cm_charges, cm_pay) == cm_pay <= cm_charges

MonthHasDelay(cm_charges, cm_pay) == cm_pay < cm_charges

\* SELECT id FROM tenants: the ids in rowid order.
RECURSIVE IdSeq(_)
IdSeq(ids) ==
    IF ids = {} THEN <<>>
    ELSE LET lo == CHOOSE t \in ids : \A u \in ids : t <= u
         IN  <<lo>> \o IdSeq(ids \ {lo})

\* The rows of a table with their ids: AUTOINCREMENT ids grow with insertion,
\* so a row's position in the table orders it as its id does.
WithIds(table) ==
    [i \in 1..Len(table) |->
        [id |-> i, tid |-> table[i].tid, date |-> table[i].date,
         amount |-> table[i].amount]]

RowLeq(a, b) == DateLt(a.date, b.date) \/ (a.date = b.date /\ a.id <= b.id)

InsertRow(sorted, r) ==
    LET k == Cardinality({i \in 1..Len(sorted) : RowLeq(sorted[i], r)})
    IN  SubSeq(sorted, 1, k) \o <<r>> \o SubSeq(sorted, k + 1, Len(sorted))

RECURSIVE OrderByDateId(_)
OrderByDateId(rows) ==
    IF rows = <<>> THEN <<>>
    ELSE InsertRow(OrderByDateId(SubSeq(rows, 1, Len(rows) - 1)), rows[Len(rows)])

\* ... FROM charges / payments WHERE tenant_id=? ORDER BY date, id
SelectOrdered(table, tenant_id) ==
    OrderByDateId(SelectSeq(WithIds(table), LAMBDA r : r.tid = tenant_id))

----------------------------------------------------------------------------
(* The ledger of page_ledger *)

TypeOrderPaymentFirst(type) ==
    CASE type = "Opening" -> 0
      [] type = "Charge" -> 2
      [] type = "Payment" -> 1
      [] OTHER -> 9

TypeOrder(type) ==
    CASE type = "Opening" -> 0
      [] type = "Charge" -> 1
      [] type = "Payment" -> 2
      [] OTHER -> 9

EventKeyLeq(a, b) ==
    \/ DateLt(a.date, b.date)
    \/ a.date = b.date /\ TypeOrder(a.type) <= TypeOrder(b.type)

\* list.sort is stable: an event goes after every event whose key is not larger.
InsertEvent(sorted, e) ==
    LET k == Cardinality({i \in 1..Len(sorted) : EventKeyLeq(sorted[i], e)})
    IN  SubSeq(sorted, 1, k) \o <<e>> \o SubSeq(sorted, k + 1, Len(sorted))

RECURSIVE SortEvents(_)
SortEvents(events) ==
    IF events = <<>> THEN <<>>
    ELSE InsertEvent(SortEvents(SubSeq(events, 1, Len(events) - 1)),
                     events[Len(events)])

BuildEvents(joining_date, opening_balance, chargeRows, payRows) ==
    <<[date |-> joining_date, type |-> "Opening", debit |-> opening_balance,
       credit |-> 0, id |-> 0]>>
    \o [i \in 1..Len(chargeRows) |->
           [date |-> chargeRows[i].date, type |-> "Charge",
            debit |-> chargeRows[i].amount, credit |-> 0, id |-> chargeRows[i].id]]
    \o [i \in 1..Len(payRows) |->
           [date |-> payRows[i].date, type |-> "Payment",
            debit |-> 0, credit |-> payRows[i].amount, id |-> payRows[i].id]]

RECURSIVE RunningNetSkipsOpening(_)
RunningNetSkipsOpening(events) ==
    IF events = <<>> THEN <<>>
    ELSE LET front == RunningNetSkipsOpening(SubSeq(events, 1, Len(events) - 1))
             net == IF front = <<>> THEN 0 ELSE front[Len(front)]
             e == events[Len(events)]
         IN  Append(front,
                    IF e.type = "Charge" THEN net - e.debit
                    ELSE IF e.type = "Payment" THEN net + e.credit
                    ELSE net)

RECURSIVE RunningNet(_)
RunningNet(events) ==
    IF events = <<>> THEN <<>>
    ELSE LET front == RunningNet(SubSeq(events, 1, Len(events) - 1))
             net == IF front = <<>> THEN 0 ELSE front[Len(front)]
             e == events[Len(events)]
         IN  Append(front,
                    IF e.type \in {"Opening", "Charge"} THEN net - e.debit
                    ELSE IF e.type = "Payment" THEN net + e.credit
                    ELSE net)

----------------------------------------------------------------------------
(* What the claims speak of, stated over the store itself *)

RECURSIVE SumIdx(_, _)
SumIdx(table, idxs) ==
    IF idxs = {} THEN 0
    ELSE LET i == CHOOSE k \in idxs : TRUE
         IN  table[i].amount + SumIdx(table, idxs \ {i})

ChargeIdx(t) == {i \in 1..Len(charges) : charges[i].tid = t}

PaymentIdx(t) == {i \in 1..Len(payments) : payments[i].tid = t}

InMonth(table, idxs, ym) ==
    {i \in idxs : table[i].date[1] = ym[1] /\ table[i].date[2] = ym[2]}

OpeningOf(t) == IF t \in DOMAIN tenants THEN tenants[t].ob ELSE 0

NetIdentity(t) ==
    SumIdx(payments, PaymentIdx(t)) - (OpeningOf(t) + SumIdx(charges, ChargeIdx(t)))

MonthIdx(ym) == ym[1] * 12 + ym[2]

Deleted(t) == t < nextId /\ t \notin DOMAIN tenants

----------------------------------------------------------------------------
(* Sessions *)

Idle ==
    [pc |-> "idle", page |-> "none", todo |-> <<>>, tid |-> 0,
     today |-> None, join_date |-> None, rent_now |-> 0, cursor |-> None,
     rent_for_month |-> 0, pend |-> <<>>,
     ret |-> "none", ym |-> None, ob |-> 0, chs |-> 0, cm_charges |-> 0,
     net |-> 0, delayed |-> FALSE, amt |-> 0,
     opening_balance |-> 0, l_charges |-> <<>>, events |-> <<>>, running |-> <<>>,
     quiet |-> TRUE, second |-> FALSE, before |-> 0, found |-> TRUE]

\* A commit by session s disturbs every other session that is inside a run.
Disturb(ss, s) ==
    [x \in Sessions |->
        IF x /= s /\ ss[x].pc /= "idle"
        THEN [ss[x] EXCEPT !.quiet = FALSE, !.second = FALSE]
        ELSE ss[x]]

NoneSettled == [t \in 1..MaxTenants |-> None]

Init ==
    /\ tenants = <<>>
    /\ nextId = 1
    /\ charges = <<>>
    /\ payments = <<>>
    /\ lock = "none"
    /\ now = StartClock
    /\ sess = [s \in Sessions |-> Idle]
    /\ settled = NoneSettled

----------------------------------------------------------------------------
(* The system date *)

Elapse(limit) ==
    /\ MonthsElapsed(now) < limit
    /\ now' = MonthOf(AdvanceCursor(FirstOf(now)))
    /\ UNCHANGED <<tenants, nextId, charges, payments, lock, sess, settled>>

AdvanceMonth == Elapse(MaxElapsed)

----------------------------------------------------------------------------
(* page_tenants.  Each button handler is one transaction: it needs the     *)
(* write lock and its rows become visible together at commit.              *)

AddTenant(s, rent, joining_date, opening_balance) ==
    /\ sess[s].pc = "idle"
    /\ s = "admin"
    /\ lock = "none"
    /\ nextId <= MaxTenants
    /\ Cardinality(DOMAIN tenants) < MaxLive
    /\ tenants' = [t \in DOMAIN tenants \cup {nextId} |->
                      IF t = nextId
                      THEN [rent |-> rent, join |-> joining_date, ob |-> opening_balance]
                      ELSE tenants[t]]
    /\ nextId' = nextId + 1
    /\ sess' = [Disturb(sess, s) EXCEPT
                   ![s] = [Idle EXCEPT !.pc = "bf_tenant", !.page = "add", !.tid = nextId]]
    /\ settled' = NoneSettled
    /\ UNCHANGED <<charges, payments, lock, now>>

UpdateTenantRewritesCharges(s, tid, new_rent, new_join, new_ob) ==
    /\ sess[s].pc = "idle"
    /\ s = "admin"
    /\ lock = "none"
    /\ tid \in DOMAIN tenants
    /\ tenants' = [tenants EXCEPT
                      ![tid] = [rent |-> new_rent, join |-> new_join, ob |-> new_ob]]
    /\ charges' = [i \in 1..Len(charges) |->
                      IF charges[i].tid = tid
                      THEN [charges[i] EXCEPT !.amount = new_rent]
                      ELSE charges[i]]
    /\ sess' = Disturb(sess, s)
    /\ settled' = NoneSettled
    /\ UNCHANGED <<nextId, payments, lock, now>>

UpdateTenant(s, tid, new_rent, new_join, new_ob) ==
    /\ sess[s].pc = "idle"
    /\ s = "admin"
    /\ lock = "none"
    /\ tid \in DOMAIN tenants
    /\ tenants' = [tenants EXCEPT
                      ![tid] = [rent |-> new_rent, join |-> new_join, ob |-> new_ob]]
    /\ sess' = Disturb(sess, s)
    /\ settled' = NoneSettled
    /\ UNCHANGED <<nextId, charges, payments, lock, now>>

DeleteTenant(s, tid) ==
    /\ sess[s].pc = "idle"
    /\ s = "admin"
    /\ lock = "none"
    /\ tid \in DOMAIN tenants
    /\ payments' = SelectSeq(payments, LAMBDA r : r.tid /= tid)
    /\ charges' = SelectSeq(charges, LAMBDA r : r.tid /= tid)
    /\ tenants' = [t \in DOMAIN tenants \ {tid} |-> tenants[t]]
    /\ sess' = Disturb(sess, s)
    /\ settled' = NoneSettled
    /\ UNCHANGED <<nextId, lock, now>>

----------------------------------------------------------------------------
(* ensure_backfilled_charges_for_all, as the first call of a page script   *)

AfterBackfill(page) ==
    CASE page = "collect" -> [Idle EXCEPT !.pc = "c_pick", !.page = page]
      [] page = "ledger" -> [Idle EXCEPT !.pc = "l_pick", !.page = page]
      [] OTHER -> Idle

EnsureAll(s, page) ==
    /\ sess[s].pc = "idle"
    /\ LET ids == IdSeq(DOMAIN tenants)
       IN  sess' = [sess EXCEPT ![s] =
               IF ids = <<>> THEN AfterBackfill(page)
               ELSE [Idle EXCEPT !.pc = "bf_tenant", !.page = page,
                                 !.tid = Head(ids), !.todo = Tail(ids)]]
    /\ UNCHANGED <<tenants, nextId, charges, payments, lock, now, settled>>

\* page_reports: after the backfill the page only reads and renders.
ReportsStart(s) == EnsureAll(s, "reports")

CollectStart(s) == EnsureAll(s, "collect")

LedgerStart(s) == s = "admin" /\ EnsureAll(s, "ledger")

----------------------------------------------------------------------------
(* ensure_backfilled_charges_for_tenant *)

BfReadTenant(s) ==
    /\ sess[s].pc = "bf_tenant"
    /\ LET me == sess[s]
           t == me.tid
       IN  sess' = [sess EXCEPT ![s] =
               IF t \in DOMAIN tenants
               THEN [me EXCEPT !.pc = "bf_last", !.today = now,
                               !.join_date = tenants[t].join,
                               !.rent_now = tenants[t].rent,
                               !.quiet = TRUE,
                               !.second = (settled[t] = now)]
               ELSE [me EXCEPT !.pc = "bf_ret", !.today = now,
                               !.quiet = TRUE, !.second = (settled[t] = now)]]
    /\ UNCHANGED <<tenants, nextId, charges, payments, lock, now, settled>>

BfReadLast(s) ==
    /\ sess[s].pc = "bf_last"
    /\ LET me == sess[s]
       IN  sess' = [sess EXCEPT ![s] =
               [me EXCEPT !.pc = "bf_loop",
                          !.cursor = StartDate(me.join_date, LastYm(charges, me.tid))]]
    /\ UNCHANGED <<tenants, nextId, charges, payments, lock, now, settled>>

BfLoopOneMonthPerRun(s) ==
    /\ sess[s].pc = "bf_loop"
    /\ LET me == sess[s]
       IN  sess' = [sess EXCEPT ![s] =
               IF DateLeq(me.cursor, FirstOf(me.today)) /\ me.pend = <<>>
               THEN [me EXCEPT !.pc = "bf_insert",
                               !.rent_for_month = RentForMonth(me.tid, me.rent_now)]
               ELSE [me EXCEPT !.pc = "bf_commit"]]
    /\ UNCHANGED <<tenants, nextId, charges, payments, lock, now, settled>>

BfLoop(s) ==
    /\ sess[s].pc = "bf_loop"
    /\ LET me == sess[s]
       IN  sess' = [sess EXCEPT ![s] =
               IF DateLeq(me.cursor, FirstOf(me.today))
               THEN [me EXCEPT !.pc = "bf_insert",
                               !.rent_for_month = RentForMonth(me.tid, me.rent_now)]
               ELSE [me EXCEPT !.pc = "bf_commit"]]
    /\ UNCHANGED <<tenants, nextId, charges, payments, lock, now, settled>>

BfInsert(s) ==
    /\ sess[s].pc = "bf_insert"
    /\ lock \in {"none", s}
    /\ Len(charges) + Len(sess[s].pend) < MaxCharges
    /\ lock' = s
    /\ LET me == sess[s]
       IN  sess' = [sess EXCEPT ![s] =
               [me EXCEPT !.pc = "bf_loop",
                          !.pend = Append(me.pend, [tid |-> me.tid, date |-> me.cursor,
                                                    amount |-> me.rent_for_month]),
                          !.rent_for_month = 0,
                          !.cursor = AdvanceCursor(me.cursor)]]
    /\ UNCHANGED <<tenants, nextId, charges, payments, now, settled>>

BfCommit(s) ==
    /\ sess[s].pc = "bf_commit"
    /\ charges' = charges \o sess[s].pend
    /\ lock' = IF lock = s THEN "none" ELSE lock
    /\ LET ss == IF sess[s].pend = <<>> THEN sess ELSE Disturb(sess, s)
       IN  sess' = [ss EXCEPT ![s] = [sess[s] EXCEPT !.pc = "bf_ret", !.pend = <<>>]]
    /\ settled' = IF sess[s].pend = <<>> THEN settled ELSE NoneSettled
    /\ UNCHANGED <<tenants, nextId, payments, now>>

BfReturn(s) ==
    /\ sess[s].pc = "bf_ret"
    /\ LET me == sess[s]
       IN  /\ settled' = IF me.quiet
                         THEN [settled EXCEPT ![me.tid] = me.today]
                         ELSE settled
           /\ sess' = [sess EXCEPT ![s] =
                  IF me.todo /= <<>>
                  THEN [Idle EXCEPT !.pc = "bf_tenant", !.page = me.page,
                                    !.tid = Head(me.todo), !.todo = Tail(me.todo)]
                  ELSE AfterBackfill(me.page)]
    /\ UNCHANGED <<tenants, nextId, charges, payments, lock, now>>

\* sqlite3 raises OperationalError (database is locked) when the write lock
\* stays with another connection for the busy timeout: the script run ends.
BusyTimeout(s) ==
    /\ sess[s].pc \in {"bf_insert", "c_form"}
    /\ lock \notin {"none", s}
    /\ sess' = [sess EXCEPT ![s] = Idle]
    /\ UNCHANGED <<tenants, nextId, charges, payments, lock, now, settled>>

----------------------------------------------------------------------------
(* tenant_net_balance and month_has_delay: one step per SELECT *)

NbOpening(s) ==
    /\ sess[s].pc = "nb_ob"
    /\ LET me == sess[s]
       IN  sess' = [sess EXCEPT ![s] =
               [me EXCEPT !.pc = "nb_ch",
                          !.found = me.tid \in DOMAIN tenants,
                          !.ob = IF me.tid \in DOMAIN tenants
                                 THEN tenants[me.tid].ob ELSE 0]]
    /\ UNCHANGED <<tenants, nextId, charges, payments, lock, now, settled>>

NbCharges(s) ==
    /\ sess[s].pc = "nb_ch"
    /\ LET me == sess[s]
       IN  sess' = [sess EXCEPT ![s] =
               [me EXCEPT !.pc = "nb_pay",
                          !.chs = SumAmount(RowsOf(charges, me.tid))]]
    /\ UNCHANGED <<tenants, nextId, charges, payments, lock, now, settled>>

NbPayments(s) ==
    /\ sess[s].pc = "nb_pay"
    /\ LET me == sess[s]
           net == TenantNetBalance(me.ob, me.chs, SumAmount(RowsOf(payments, me.tid)))
       IN  sess' = [sess EXCEPT ![s] =
               [me EXCEPT !.pc = me.ret, !.ret = "none", !.ob = 0, !.chs = 0,
                          !.net = net]]
    /\ UNCHANGED <<tenants, nextId, charges, payments, lock, now, settled>>

MhCharges(s) ==
    /\ sess[s].pc = "mh_ch"
    /\ LET me == sess[s]
       IN  sess' = [sess EXCEPT ![s] =
               [me EXCEPT !.pc = "mh_pay",
                          !.cm_charges = SumAmount(RowsOfMonth(charges, me.tid, me.ym))]]
    /\ UNCHANGED <<tenants, nextId, charges, payments, lock, now, settled>>

MhPayments(s) ==
    /\ sess[s].pc = "mh_pay"
    /\ LET me == sess[s]
           delayed == MonthHasDelay(me.cm_charges,
                                    SumAmount(RowsOfMonth(payments, me.tid, me.ym)))
       IN  sess' = [sess EXCEPT ![s] =
               IF me.page = "ledger"
               THEN [me EXCEPT !.pc = "nb_ob", !.ret = "l_done", !.cm_charges = 0,
                               !.delayed = delayed]
               ELSE [me EXCEPT !.pc = "c_form", !.cm_charges = 0,
                               !.delayed = delayed]]
    /\ UNCHANGED <<tenants, nextId, charges, payments, lock, now, settled>>

----------------------------------------------------------------------------
(* page_collect_rent *)

CollectPick(s, tid) ==
    /\ sess[s].pc = "c_pick"
    /\ tid \in DOMAIN tenants
    /\ sess' = [sess EXCEPT ![s] =
           [sess[s] EXCEPT !.pc = "nb_ob", !.ret = "mh_ch", !.tid = tid, !.ym = now]]
    /\ UNCHANGED <<tenants, nextId, charges, payments, lock, now, settled>>

\* tenants.empty: the page warns and returns.
NoTenants(s) ==
    /\ sess[s].pc \in {"c_pick", "l_pick"}
    /\ DOMAIN tenants = {}
    /\ sess' = [sess EXCEPT ![s] = Idle]
    /\ UNCHANGED <<tenants, nextId, charges, payments, lock, now, settled>>

InsertPaymentNotCommitted(table, tenant_id, pdate, amt) == table

InsertPayment(table, tenant_id, pdate, amt) ==
    Append(table, [tid |-> tenant_id, date |-> pdate, amount |-> amt])

SavePayment(s, amt, pdate) ==
    /\ sess[s].pc = "c_form"
    /\ lock = "none"
    /\ Len(payments) < MaxPayments
    /\ payments' = InsertPayment(payments, sess[s].tid, pdate, amt)
    /\ LET me == sess[s]
       IN  sess' = [Disturb(sess, s) EXCEPT ![s] =
               [me EXCEPT !.pc = "nb_ob", !.ret = "c_done", !.amt = amt,
                          !.net = 0, !.delayed = FALSE, !.ym = None,
                          !.quiet = TRUE,
                          !.before = NetIdentity(me.tid)]]
    /\ settled' = NoneSettled
    /\ UNCHANGED <<tenants, nextId, charges, lock, now>>

\* The script run in which Save Payment was not pressed ends after the form.
CollectLeave(s) ==
    /\ sess[s].pc = "c_form"
    /\ sess' = [sess EXCEPT ![s] = Idle]
    /\ UNCHANGED <<tenants, nextId, charges, payments, lock, now, settled>>

CollectFinish(s) ==
    /\ sess[s].pc = "c_done"
    /\ sess' = [sess EXCEPT ![s] = Idle]
    /\ UNCHANGED <<tenants, nextId, charges, payments, lock, now, settled>>

----------------------------------------------------------------------------
(* page_ledger *)

LedgerPick(s, tid) ==
    /\ sess[s].pc = "l_pick"
    /\ tid \in DOMAIN tenants
    /\ sess' = [sess EXCEPT ![s] =
           [sess[s] EXCEPT !.pc = "l_ch", !.tid = tid,
                           !.join_date = tenants[tid].join,
                           !.opening_balance = tenants[tid].ob,
                           !.quiet = TRUE]]
    /\ UNCHANGED <<tenants, nextId, charges, payments, lock, now, settled>>

LedgerCharges(s) ==
    /\ sess[s].pc = "l_ch"
    /\ sess' = [sess EXCEPT ![s] =
           [sess[s] EXCEPT !.pc = "l_pay",
                           !.l_charges = SelectOrdered(charges, sess[s].tid)]]
    /\ UNCHANGED <<tenants, nextId, charges, payments, lock, now, settled>>

LedgerPayments(s) ==
    /\ sess[s].pc = "l_pay"
    /\ LET me == sess[s]
           events == SortEvents(BuildEvents(me.join_date, me.opening_balance,
                                            me.l_charges,
                                            SelectOrdered(payments, me.tid)))
       IN  sess' = [sess EXCEPT ![s] =
               [me EXCEPT !.pc = "mh_ch", !.l_charges = <<>>, !.join_date = None,
                          !.opening_balance = 0,
                          !.events = events, !.running = RunningNet(events),
                          !.ym = now]]
    /\ UNCHANGED <<tenants, nextId, charges, payments, lock, now, settled>>

LedgerFinish(s) ==
    /\ sess[s].pc = "l_done"
    /\ sess' = [sess EXCEPT ![s] = Idle]
    /\ UNCHANGED <<tenants, nextId, charges, payments, lock, now, settled>>

----------------------------------------------------------------------------
(* Specifications *)

TenantPage(s) ==
    \/ \E rent \in Rents, jd \in JoinDates, ob \in OpeningBalances :
           AddTenant(s, rent, jd, ob)
    \/ \E t \in 1..MaxTenants, rent \in Rents, jd \in JoinDates, ob \in OpeningBalances :
           UpdateTenant(s, t, rent, jd, ob)
    \/ \E t \in 1..MaxTenants : DeleteTenant(s, t)

Backfill(s) ==
    \/ BfReadTenant(s)
    \/ BfReadLast(s)
    \/ BfLoop(s)
    \/ BfInsert(s)
    \/ BfCommit(s)
    \/ BfReturn(s)

Reads(s) ==
    \/ NbOpening(s)
    \/ NbCharges(s)
    \/ NbPayments(s)
    \/ MhCharges(s)
    \/ MhPayments(s)

CollectPage(s) ==
    \/ CollectStart(s)
    \/ \E t \in 1..MaxTenants : CollectPick(s, t)
    \/ \E amt \in PayAmounts, day \in PayDays : SavePayment(s, amt, <<now[1], now[2], day>>)
    \/ CollectLeave(s)
    \/ CollectFinish(s)

LedgerPage(s) ==
    \/ LedgerStart(s)
    \/ \E t \in 1..MaxTenants : LedgerPick(s, t)
    \/ LedgerCharges(s)
    \/ LedgerPayments(s)
    \/ LedgerFinish(s)

\* Two sessions, their statements interleaved: the tenant page and the
\* backfill that every page starts with, as the system date advances.
Next ==
    \/ AdvanceMonth
    \/ \E s \in Sessions : TenantPage(s)
    \/ \E s \in Sessions : ReportsStart(s)
    \/ \E s \in Sessions : Backfill(s)
    \/ \E s \in Sessions : BusyTimeout(s)

Spec == Init /\ [][Next]_vars

\* Two sessions, their statements interleaved: the admin adds and deletes
\* tenants and opens the ledger while the employee collects rent.
PageNext ==
    \/ \E rent \in Rents, jd \in JoinDates, ob \in OpeningBalances :
           AddTenant("admin", rent, jd, ob)
    \/ \E t \in 1..MaxTenants : DeleteTenant("admin", t)
    \/ LedgerPage("admin")
    \/ CollectPage("employee")
    \/ \E s \in Sessions : NoTenants(s)
    \/ \E s \in Sessions : Backfill(s)
    \/ \E s \in Sessions : Reads(s)
    \/ \E s \in Sessions : BusyTimeout(s)

PageSpec == Init /\ [][PageNext]_vars

\* One session: every page script runs to its end before the next starts.
SeqNext ==
    \/ AdvanceMonth
    \/ TenantPage("admin")
    \/ ReportsStart("admin")
    \/ CollectPage("admin")
    \/ LedgerPage("admin")
    \/ NoTenants("admin")
    \/ Backfill("admin")
    \/ Reads("admin")

SeqSpec == Init /\ [][SeqNext]_vars

\* One session, no tenant edits: tenants are added and deleted and the pages
\* that run the backfill are opened in some months and not in others.
GapNext ==
    \/ Elapse(MaxGap)
    \/ \E rent \in Rents, jd \in JoinDates, ob \in OpeningBalances :
           AddTenant("admin", rent, jd, ob)
    \/ \E t \in 1..MaxTenants : DeleteTenant("admin", t)
    \/ ReportsStart("admin")
    \/ Backfill("admin")

GapSpec == Init /\ [][GapNext]_vars

\* The script thread of a session executes the statements of a running
\* backfill one after the other: a run that can take a step takes it.
GapFairSpec == GapSpec /\ WF_vars(Backfill("admin"))

----------------------------------------------------------------------------
(* Claims *)

\* C1: at most one charge row exists for a (tenant, month) pair, also when
\* several sessions run the backfill for the same tenant at once.
C1_Uniqueness ==
    \A i, j \in 1..Len(charges) :
        (i < j /\ charges[i].tid = charges[j].tid)
            => MonthOf(charges[i].date) /= MonthOf(charges[j].date)

\* C2: a backfill run that starts right after a completed run for the same
\* tenant (same system date, nothing committed in between) inserts nothing.
C2_SecondRunInsertsNothing ==
    \A s \in Sessions :
        sess[s].second => (sess[s].pc /= "bf_insert" /\ sess[s].pend = <<>>)

C2_Witness ==
    \E s \in Sessions :
        /\ sess[s].second
        /\ sess[s].pc = "bf_commit"
        /\ ChargeIdx(sess[s].tid) /= {}

\* C3: a step never changes the month or amount of an existing charge of a
\* tenant it keeps; the charges it adds are for months after every month
\* already charged and carry the rent stored at that moment.
C3_NoRetroactiveRewrite ==
    [][\A t \in 1..MaxTenants :
           t \in DOMAIN tenants' =>
               LET old == RowsOf(charges, t)
                   new == RowsOf(charges', t)
               IN  /\ Len(old) <= Len(new)
                   /\ SubSeq(new, 1, Len(old)) = old
                   /\ \A i \in (Len(old) + 1)..Len(new) :
                          /\ \A k \in 1..Len(old) : DateLt(old[k].date, new[i].date)
                          /\ new[i].amount = tenants[t].rent]_vars

C3_Witness ==
    \E i, j \in 1..Len(charges) :
        /\ charges[i].tid = charges[j].tid
        /\ charges[i].tid \in DOMAIN tenants
        /\ DateLt(charges[i].date, charges[j].date)
        /\ charges[i].amount /= charges[j].amount
        /\ charges[j].amount = tenants[charges[j].tid].rent

\* C4: when a backfill run for an existing tenant completes, the months that
\* have a charge are exactly the months from the tenant's join month through
\* the month of the system date the run read.
C4_ExactCoverage ==
    \A s \in Sessions :
        (sess[s].pc = "bf_ret" /\ sess[s].tid \in DOMAIN tenants) =>
            {MonthIdx(MonthOf(charges[i].date)) : i \in ChargeIdx(sess[s].tid)}
                = MonthIdx(MonthOf(tenants[sess[s].tid].join))..MonthIdx(sess[s].today)

\* C5: the value tenant_net_balance returns is the tenant's payments minus
\* (opening balance plus charges) of the store it read.
C5_BalanceIdentity ==
    \A s \in Sessions :
        (\/ sess[s].pc = "mh_ch" /\ sess[s].page = "collect"
         \/ sess[s].pc \in {"c_done", "l_done"})
            => sess[s].net = NetIdentity(sess[s].tid)

C5_Witness ==
    \E s \in Sessions :
        /\ sess[s].pc = "c_done"
        /\ OpeningOf(sess[s].tid) /= 0
        /\ SumIdx(charges, ChargeIdx(sess[s].tid)) /= 0
        /\ SumIdx(payments, PaymentIdx(sess[s].tid)) /= 0

\* C6 as claimed: the last running balance of the ledger page_ledger built
\* equals the net balance the same page run shows.
C6_LedgerEndsAtNetBalance ==
    \A s \in Sessions :
        sess[s].pc = "l_done" =>
            sess[s].running[Len(sess[s].running)] = sess[s].net

\* C6 as amended: they are equal when no other session commits between the
\* page's read of the tenant row and the last read of tenant_net_balance.
C6_LedgerEndsAtNetBalanceWhenQuiet ==
    \A s \in Sessions :
        (sess[s].pc = "l_done" /\ sess[s].quiet) =>
            sess[s].running[Len(sess[s].running)] = sess[s].net

C6_Witness ==
    \E s \in Sessions :
        /\ sess[s].pc = "l_done"
        /\ sess[s].quiet
        /\ sess[s].events[1].debit /= 0
        /\ \E i \in 1..Len(sess[s].events) : sess[s].events[i].type = "Charge"
        /\ \E i \in 1..Len(sess[s].events) : sess[s].events[i].type = "Payment"

\* C7: the ledger is sorted by date; on one date Opening comes before Charge
\* and Charge before Payment; on one date and type, rows keep insertion order.
C7_LedgerOrder ==
    \A s \in Sessions :
        sess[s].pc = "l_done" =>
            \A i, j \in 1..Len(sess[s].events) :
                i < j =>
                    LET a == sess[s].events[i]
                        b == sess[s].events[j]
                    IN  /\ ~DateLt(b.date, a.date)
                        /\ a.date = b.date =>
                               /\ b.type /= "Opening"
                               /\ ~(a.type = "Payment" /\ b.type = "Charge")
                               /\ a.type = b.type => a.id < b.id

C7_Witness ==
    \E s \in Sessions :
        /\ sess[s].pc = "l_done"
        /\ \E i, j, k, l \in 1..Len(sess[s].events) :
               LET e == sess[s].events
               IN  /\ e[i].type = "Opening" /\ e[j].type = "Charge"
                   /\ e[k].type = "Payment" /\ e[l].type = "Payment" /\ k /= l
                   /\ e[i].date = e[j].date /\ e[j].date = e[k].date
                   /\ e[k].date = e[l].date

\* C8: month_has_delay is true exactly when the payments dated in the month
\* sum to less than the charges dated in the month.
C8_PeriodLocalDelay ==
    \A s \in Sessions :
        sess[s].pc \in {"c_form", "l_done"} =>
            (sess[s].delayed <=>
                SumIdx(payments, InMonth(payments, PaymentIdx(sess[s].tid), sess[s].ym))
                  < SumIdx(charges, InMonth(charges, ChargeIdx(sess[s].tid), sess[s].ym)))

C8_Witness ==
    \E s \in Sessions :
        /\ sess[s].pc = "l_done"
        /\ ~sess[s].delayed
        /\ sess[s].net < 0
        /\ SumIdx(charges, InMonth(charges, ChargeIdx(sess[s].tid), sess[s].ym)) > 0

\* C9: with no other writer in between, the balance returned with a recorded
\* payment is the balance just before the insert plus the payment amount.
C9_ReadsOwnPaymentOnce ==
    \A s \in Sessions :
        (sess[s].pc = "c_done" /\ sess[s].quiet) =>
            sess[s].net = sess[s].before + sess[s].amt

C9_Witness ==
    \E s \in Sessions :
        /\ sess[s].pc = "c_done"
        /\ sess[s].quiet
        /\ sess[s].amt > 0
        /\ Cardinality(PaymentIdx(sess[s].tid)) = 2

\* C10: no charge row and no payment row of a deleted tenant is in the store.
C10_NoRowsOfDeletedTenant ==
    \A t \in 1..MaxTenants :
        Deleted(t) => (ChargeIdx(t) = {} /\ PaymentIdx(t) = {})

\* C11: a net-balance lookup whose tenant row is missing does not hand a number
\* to the page, and no payment row is inserted for a tenant not in the store.
C11_MissingTenantIsNotFound ==
    /\ \A s \in Sessions :
           (\/ sess[s].pc = "mh_ch" /\ sess[s].page = "collect"
            \/ sess[s].pc \in {"c_done", "l_done"})
               => sess[s].found
    /\ \A i \in 1..Len(payments) : payments[i].tid \in DOMAIN tenants

\* C12: with the rent unchanged, a run that has finished its loop leaves one
\* charge per month from the join month through the current month, each at the
\* rent, whether earlier runs happened in every elapsed month or in none: both
\* schedules end in the same charge set.
C12_CatchUpEquivalence ==
    \A s \in Sessions :
        (sess[s].pc = "bf_commit" /\ sess[s].tid \in DOMAIN tenants) =>
            LET t == sess[s].tid
                rows == RowsOf(charges \o sess[s].pend, t)
                lo == MonthIdx(MonthOf(tenants[t].join))
                hi == MonthIdx(sess[s].today)
            IN  /\ Len(rows) = hi - lo + 1
                /\ \A i \in 1..Len(rows) :
                       /\ MonthIdx(MonthOf(rows[i].date)) = lo + i - 1
                       /\ rows[i].amount = tenants[t].rent

C12_Witness ==
    \E s \in Sessions :
        /\ sess[s].pc = "bf_commit"
        /\ sess[s].tid \in DOMAIN tenants
        /\ tenants[sess[s].tid].rent /= 0
        /\ MonthsElapsed(sess[s].today) = MaxGap
        /\ Len(sess[s].pend) = MaxGap
        /\ ChargeIdx(sess[s].tid) /= {}

\* C13: no step changes the opening balance of a tenant that stays in the
\* store, and no step changes its join date once the backfill has charged it.
C13_OpeningAndJoinFixed ==
    [][\A t \in DOMAIN tenants \cap DOMAIN tenants' :
           /\ tenants'[t].ob = tenants[t].ob
           /\ ChargeIdx(t) /= {} => tenants'[t].join = tenants[t].join]_vars

\* C14: each loop step of a backfill run prepares its charge with the rent the
\* tenant row holds when the step reads it, a rent of zero included.
C14_StepUsesStoredRent ==
    [][\A s \in Sessions :
           (/\ sess[s].pc = "bf_loop"
            /\ sess'[s].pc = "bf_insert"
            /\ sess[s].tid \in DOMAIN tenants)
               => sess'[s].rent_for_month = tenants[sess[s].tid].rent]_vars

\* C15: the ledger page_ledger built holds exactly one Opening event, dated in
\* the tenant's join month with the opening balance as debit; it is the first
\* event, so the first running balance is minus the opening balance.
C15_OpeningIsFirst ==
    \A s \in Sessions :
        (sess[s].pc = "l_done" /\ sess[s].tid \in DOMAIN tenants) =>
            LET e == sess[s].events
                t == tenants[sess[s].tid]
            IN  /\ Cardinality({i \in 1..Len(e) : e[i].type = "Opening"}) = 1
                /\ \A i \in 1..Len(e) :
                       e[i].type = "Opening" =>
                           /\ MonthOf(e[i].date) = MonthOf(t.join)
                           /\ e[i].debit = t.ob
                /\ e[1].type = "Opening"
                /\ sess[s].running[1] = 0 - t.ob

\* C16: every backfill run that starts returns; each loop step moves the month
\* cursor to the first day of the next calendar month (December to January of
\* the next year), and the loop is left only with the cursor past the current
\* month.
C16_RunTerminates ==
    /\ [][\A s \in Sessions :
             /\ (sess[s].pc = "bf_insert" /\ sess'[s].pc = "bf_loop") =>
                    /\ MonthIdx(MonthOf(sess'[s].cursor))
                           = MonthIdx(MonthOf(sess[s].cursor)) + 1
                    /\ sess'[s].cursor[3] = 1
             /\ (sess[s].pc = "bf_loop" /\ sess'[s].pc = "bf_commit") =>
                    DateLt(FirstOf(sess[s].today), sess[s].cursor)]_vars
    /\ \A s \in Sessions : (sess[s].pc = "bf_tenant") ~> (sess[s].pc = "bf_ret")

C16_Witness ==
    \E s \in Sessions :
        /\ sess[s].pc = "bf_commit"
        /\ DateLt(FirstOf(sess[s].today), sess[s].cursor)
        /\ \E i \in 1..Len(sess[s].pend) : sess[s].pend[i].date = <<2023, 12, 1>>
        /\ \E i \in 1..Len(sess[s].pend) : sess[s].pend[i].date = <<2024, 1, 1>>

====
